---- MODULE Spec2Model ----
(***************************************************************************)
(* Kara: the annotation canvas of src/app/main_window.py with its undo     *)
(* stack (controllers/undo_redo.py, commands/*.py), the rectangle items    *)
(* (gui/item/moveable_rect_item.py), the viewer (gui/viewer/               *)
(* panel_viewer.py) and the sidecar files (controllers/annotation.py).     *)
(*                                                                         *)
(* Every UI handler runs to completion on the UI thread, so one action of  *)
(* the model is one handler together with every slot it reaches through    *)
(* direct signal connections.  The handlers are written as operators from  *)
(* a record of the window's fields to such a record; an action commits the *)
(* record its handler returns.                                             *)
(*                                                                         *)
(* Lengths are in half pixels: the bounding rectangle of a                 *)
(* QGraphicsRectItem is its rectangle grown by half the pen width on each  *)
(* side, and the pens of _STYLE are 1 and 2 pixels wide.                   *)
(***************************************************************************)
EXTENDS Integers, Sequences, FiniteSets, TLC

\* ------------------------------------------------------------------ bounds
\* rectangle items alive at a time (in the scene, in _rect_list or in a command)
MaxRects == 2
\* QListWidgetItems alive at a time (in a list or in a command)
MaxItems == 3
\* *.jpg siblings of the chapter directory
NPages == 2
\* user operations (menu actions, clicks, mouse events, key strokes) in a run
MaxOps == 7
\* user operations in a run that edits with the list, the spin boxes and the
\* Edit menu only
MaxUndoOps == 9
\* entries of the sidecar file given to a call of AnnotationController.load
MaxEntries == 2
\* calls of detect and recognize that are followed
MaxCalls == 2
\* user operations and signal deliveries of a run with OCR workers
MaxOcrOps == 6
\* OCR worker threads alive at a time
MaxWorkers == 2

\* ------------------------------------------------------- program constants
\* QSpinBox ranges of the property panel (pixels)
SpinMax == 10000
\* PanelViewer.MIN_BOX_SIZE (pixels)
MIN_BOX_SIZE == 10
\* width and height of the page images (pixels)
ImageSide == 1000
\* the text that the OCR model recognizes in a crop
Recognized == "t"
\* MoveableRectItem.min_size (pixels)
min_size == 10

Rects == 1..MaxRects
Items == 1..MaxItems
Pages == 1..NPages
\* None, for an item, a rectangle or a path
None == 0

Geom(x, y, w, h) == [x |-> x, y |-> y, w |-> w, h |-> h]
NoGeom == Geom(0, 0, 0, 0)

\* the boxes the user drags out with the Box tool (scene coordinates): one
\* of 20 x 20 pixels and one of 5 x 20 pixels
Boxes == {Geom(20, 20, 40, 40), Geom(20, 20, 10, 40)}
\* one mouse-move step of a drag or of a resize by the right handle
DragStep == 4
\* texts the user types into the OCR and translation editors
Typed == {"e"}

\* the sidecar files found in <chapter>/.kara when the program starts
Entry(g, k, d, o, t) == [rect |-> g, kind |-> k, done |-> d, ocr |-> o, translation |-> t]
InitDisk ==
    [p \in Pages |->
        IF p = 1
        THEN [exists |-> TRUE,
              bubbles |-> << Entry(Geom(40, 40, 40, 40), "free-text", FALSE, "a", "b") >>]
        ELSE [exists |-> FALSE, bubbles |-> << >>]]

VARIABLES
    rect,             \* the MoveableRectItems: pos, rect size, kind, _done, ocr_text, trans, pen, flags
    item,             \* the QListWidgetItems: data(UserRole), checkState, C++ object alive
    scene,            \* rectangle items in viewer.scene()
    rect_list,        \* MainWindow._rect_list
    bubble_list,      \* rows of MainWindow.bubble_list
    current,          \* bubble_list.currentItem()
    last_geom,        \* MainWindow._last_geom
    stack,            \* the commands of undo_ctrl._stack
    index,            \* QUndoStack.index()
    dirty,            \* MainWindow._dirty
    cur_img_path,     \* MainWindow.cur_img_path
    pages,            \* MainWindow.pages
    current_page_idx, \* MainWindow.current_page_idx
    disk,             \* the sidecar file of each page
    has_photo,        \* viewer.has_photo()
    ocr_output,       \* text of the OCR editor
    trans_edit,       \* text of the translation editor
    spin,             \* values of x_spin, y_spin, w_spin, h_spin
    fields_enabled,   \* the property widgets are enabled
    grab,             \* the rectangle item that grabbed the mouse
    resize_handle,    \* its resize_handle
    pressed,          \* history: the grabbed rectangle's geometry and the stack
                      \* index when the button went down
    answered,         \* history: the answer to the dialog the last operation showed
    done_conn,        \* the list items that the done_changed slots of each rectangle hold
    did,              \* history: what the last operation did (file written, signals emitted)
    ops,              \* operations handled so far
    budget,           \* operations of this run
    load_call,        \* a call of AnnotationController.load: the sidecar file and what it did
    models,           \* the detector and the OCR engine: _model / _ocr assigned, _ready set
    calls,            \* the threads that call detect() and recognize()
    workers,          \* the OCR worker threads of the window
    ocr_queue,        \* the ocr_done signals queued for the UI thread
    action_enabled,   \* action_undo.isEnabled(), action_redo.isEnabled()
    detection_queue,  \* the detection_done signals queued for the UI thread
    det_hist          \* history: ops when the oldest detection run now under way was
                      \* started, and the detection operations handled since then

vars == << rect, item, scene, rect_list, bubble_list, current,
             last_geom, stack, index, dirty, cur_img_path, pages, current_page_idx,
             disk, has_photo, ocr_output, trans_edit, spin, fields_enabled,
             grab, resize_handle, pressed, answered, done_conn, did, ops, budget,
             load_call, models, calls, workers, ocr_queue, action_enabled,
             detection_queue, det_hist >>

\* what an operation has done so far: nothing.  wrote: the sidecar file was
\* written; saved_emitted: annotations_saved was emitted; status: the status
\* text it set about saving; done_changes, done_emits: the changes of a _done
\* field and the emissions of done_changed
NoDid ==
    [wrote |-> FALSE, saved_emitted |-> FALSE, status |-> "",
     done_changes |-> 0, done_emits |-> 0]

\* the window's fields as one record, as a handler finds them; no dialog has
\* been shown yet
St ==
    [rect |-> rect, item |-> item,
     scene |-> scene, rect_list |-> rect_list, bubble_list |-> bubble_list,
     current |-> current, last_geom |-> last_geom, stack |-> stack, index |-> index,
     dirty |-> dirty, cur_img_path |-> cur_img_path, pages |-> pages,
     current_page_idx |-> current_page_idx, disk |-> disk, has_photo |-> has_photo,
     ocr_output |-> ocr_output, trans_edit |-> trans_edit, spin |-> spin,
     fields_enabled |-> fields_enabled, grab |-> grab, resize_handle |-> resize_handle,
     press |-> pressed, reply |-> "none", done_conn |-> done_conn, did |-> NoDid,
     action_enabled |-> action_enabled,
     detection_queue |-> detection_queue, det_hist |-> det_hist,
     models |-> models, workers |-> workers, ocr_queue |-> ocr_queue]

\* ------------------------------------------------------- sequence helpers
RECURSIVE IndexOf(_, _, _)
\* first i >= from with seq[i] = v, or 0
IndexOf(seq, v, from) ==
    IF from > Len(seq) THEN 0
    ELSE IF seq[from] = v THEN from
    ELSE IndexOf(seq, v, from + 1)

RemoveAt(seq, i) == SubSeq(seq, 1, i - 1) \o SubSeq(seq, i + 1, Len(seq))

\* list.insert(row, v) and QListModel::insert, row counted from 0: a row past the end appends
InsertAt(seq, row, v) ==
    LET r == IF row > Len(seq) THEN Len(seq) ELSE row
    IN  SubSeq(seq, 1, r) \o << v >> \o SubSeq(seq, r + 1, Len(seq))

RectsOf(rl) == [i \in 1..Len(rl) |-> rl[i].rect]
ItemsOf(rl) == [i \in 1..Len(rl) |-> rl[i].li]
Range(seq) == {seq[i] : i \in 1..Len(seq)}

\* ------------------------------------------------------------ the objects
\* A rectangle item or a list item that no list, scene or command refers to
\* can no longer be reached by any handler (it lives on only as a key of
\* _last_geom and in the closures of its own signals).  The model gives its
\* name to the next object constructed, so MaxRects and MaxItems bound the
\* objects alive at a time.
UsedItems(s) ==
    (Range(s.bubble_list) \cup Range(ItemsOf(s.rect_list))
        \cup {s.stack[i].li : i \in 1..Len(s.stack)} \cup {s.current}) \ {None}

UsedRects(s) ==
    (s.scene \cup Range(RectsOf(s.rect_list))
        \cup {s.stack[i].rect : i \in 1..Len(s.stack)}
        \cup UNION {Range(s.stack[i].snap) : i \in 1..Len(s.stack)}
        \cup {s.item[li].rect : li \in UsedItems(s)} \cup {s.grab}
        \cup {s.workers[k].rect : k \in DOMAIN s.workers}
        \cup {s.ocr_queue[k].rect : k \in DOMAIN s.ocr_queue}) \ {None}

Lowest(S) == CHOOSE x \in S : \A y \in S : x <= y

\* the list items without a name to give away: those in use and the live
\* ones that a done_changed slot holds
TakenItems(s) ==
    UsedItems(s) \cup {li \in UNION {Range(s.done_conn[r]) : r \in Rects} : s.item[li].alive}

\* the name of the next MoveableRectItem and of the next QListWidgetItem
FreshRect(s) == Lowest(Rects \ UsedRects(s))
FreshItem(s) == Lowest(Items \ TakenItems(s))

\* ------------------------------------------------------- MoveableRectItem
\* a list item that was never constructed
NoItem == [rect |-> None, check |-> FALSE, alive |-> FALSE]

\* an item that was never constructed.  bpen is the pen width that the
\* cached bounding rectangle was computed with, 0 when nothing is cached:
\* QGraphicsRectItem.boundingRect() computes the rectangle grown by half the
\* pen width once and keeps it until setRect() changes the rectangle; setPen()
\* does not reset it.
NoRect ==
    [x |-> 0, y |-> 0, w |-> 0, h |-> 0, kind |-> "bubble", done |-> FALSE,
     ocr_text |-> "", trans |-> "", pen |-> 0, bpen |-> 0, movable |-> FALSE]

\* MoveableRectItem(QRectF(0, 0, w, h), kind=kind) followed by setPos(x, y):
\* __init__ ends with _apply_style(), the "normal" style
NewRect(g, kind) ==
    [x |-> g.x, y |-> g.y, w |-> g.w, h |-> g.h, kind |-> kind, done |-> FALSE,
     ocr_text |-> "", trans |-> "", pen |-> 1, bpen |-> 0, movable |-> TRUE]

\* pen width (pixels) of a style of _STYLE: "normal" 1, "selected" 2, "done" pen_w 2
PenOf(state) == IF state = "normal" THEN 1 ELSE 2

\* _apply_style(state): pen, and ItemIsMovable cleared for "done" only
apply_style(s, r, state) ==
    [s EXCEPT !.rect[r].pen = PenOf(state), !.rect[r].movable = (state # "done")]

\* setSelected(selected)
setSelected(s, r, selected) ==
    apply_style(s, r, IF selected THEN "selected"
                      ELSE IF s.rect[r].done THEN "done" ELSE "normal")

\* the window after a call of r.boundingRect(): the bounding rectangle is cached
boundingRect(s, r) ==
    IF s.rect[r].bpen = 0 THEN [s EXCEPT !.rect[r].bpen = s.rect[r].pen] ELSE s

\* the value of r.sceneBoundingRect(): pos + rect, grown by half the width
\* of the pen on each side
sceneBoundingRect(s, r) ==
    LET q == boundingRect(s, r).rect[r]
    IN  Geom(q.x - q.bpen, q.y - q.bpen, q.w + 2 * q.bpen, q.h + 2 * q.bpen)

\* boundingRect() of every rectangle item of S
BoundAll(s, S) ==
    [s EXCEPT !.rect = [r \in Rects |->
        IF r \in S /\ s.rect[r].bpen = 0
        THEN [s.rect[r] EXCEPT !.bpen = s.rect[r].pen] ELSE s.rect[r]]]

\* the view paints the scene before it handles the next input event, which
\* asks every item of the scene for its bounding rectangle
Repaint(s) == BoundAll(s, s.scene)

\* setRect(0, 0, w, h): a different rectangle drops the cached bounding rectangle
setRect(s, r, w, h) ==
    IF s.rect[r].w = w /\ s.rect[r].h = h THEN s
    ELSE [s EXCEPT !.rect[r].w = w, !.rect[r].h = h, !.rect[r].bpen = 0]

\* QRectF(rect.pos(), rect.rect().size())
PosSize(s, r) == Geom(s.rect[r].x, s.rect[r].y, s.rect[r].w, s.rect[r].h)

\* setPos(g.x, g.y); setRect(0, 0, g.w, g.h)
SetGeom(s, r, g) == setRect([s EXCEPT !.rect[r].x = g.x, !.rect[r].y = g.y], r, g.w, g.h)

\* ------------------------------------------------- list and property panel
\* QSpinBox.setValue(int(v)) for v in half pixels: int() truncates towards
\* zero and setValue clamps to the box's range lo..SpinMax
SpinValue(v, lo) ==
    LET t == IF v >= 0 THEN v \div 2 ELSE 0 - ((0 - v) \div 2)
    IN  IF t < lo THEN lo ELSE IF t > SpinMax THEN SpinMax ELSE t

\* panel fields that emit their signals when they are set: setPlainText
\* emits textChanged, of which _mark_dirty is a slot
signals_delivered(s, shown) == [shown EXCEPT !.dirty = TRUE]

\* blockSignals(True) ... blockSignals(False) and QSignalBlocker around the
\* setters of the panel fields: the window `shown` with the fields set, no
\* slot having run
QSignalBlocker(s, shown) == shown

\* the body of on_bubble_selected's "li is current" branch
ShowInPanel(s, r) ==
    LET q  == s.rect[r]
        s1 == IF q.done THEN [s EXCEPT !.fields_enabled = FALSE] ELSE s
    IN  QSignalBlocker(s1,
            [s1 EXCEPT !.ocr_output = q.ocr_text,
                       !.trans_edit = q.trans,
                       !.spin = Geom(SpinValue(q.x, 0), SpinValue(q.y, 0),
                                     SpinValue(q.w, 1), SpinValue(q.h, 1))])

RECURSIVE SelectedLoop(_, _, _, _)
SelectedLoop(s, cur, prev, i) ==
    IF i > Len(s.rect_list) THEN s
    ELSE LET li == s.rect_list[i].li
             r  == s.rect_list[i].rect
             s1 == IF li = prev THEN setSelected(s, r, FALSE) ELSE s
             s2 == IF li = cur THEN ShowInPanel(s1, r) ELSE s1
         IN  SelectedLoop(s2, cur, prev, i + 1)

\* on_bubble_selected(current, previous), the slot of currentItemChanged
on_bubble_selected(s, cur, prev) ==
    IF cur = None THEN s
    ELSE SelectedLoop([s EXCEPT !.fields_enabled = TRUE], cur, prev, 1)

\* bubble_list.setCurrentItem(li) for a live li: currentItemChanged is emitted
\* only when the current item changes; an item that is in no row clears it
setCurrentItem(s, li) ==
    IF li = s.current THEN s
    ELSE IF li \notin Range(s.bubble_list) THEN [s EXCEPT !.current = None]
    ELSE on_bubble_selected([s EXCEPT !.current = li], li, s.current)

\* bubble_list.takeItem(bubble_list.row(li)); when the current row goes, the
\* view makes the next row current, else the previous one, else none
takeItem(s, li) ==
    LET row  == IndexOf(s.bubble_list, li, 1)
        rows == RemoveAt(s.bubble_list, row)
        next == IF row <= Len(rows) THEN rows[row]
                ELSE IF row > 1 THEN rows[row - 1] ELSE None
    IN  IF row = 0 THEN s
        ELSE IF s.current # li THEN [s EXCEPT !.bubble_list = rows]
        ELSE on_bubble_selected([s EXCEPT !.bubble_list = rows, !.current = next],
                                next, li)

\* bubble_list.insertItem(row, li): nothing when li already is in the view
insertItem(s, row, li) ==
    IF li \in Range(s.bubble_list) THEN s
    ELSE [s EXCEPT !.bubble_list = InsertAt(s.bubble_list, row, li)]

\* _set_property_fields_enabled(enabled)
set_property_fields_enabled(s, enabled) == [s EXCEPT !.fields_enabled = enabled]

\* _mark_dirty()
mark_dirty(s) == [s EXCEPT !.dirty = TRUE]

\* ------------------------------------------------------- the done flag
RECURSIVE set_done(_, _, _)
RECURSIVE done_changed_emit(_, _, _, _)
RECURSIVE setCheckState(_, _, _)
RECURSIVE on_bubble_done_changed(_, _)
RECURSIVE on_list_done_toggled(_, _)

\* the done setter: nothing for the value the rectangle has; else _done,
\* the "done" or "normal" style and done_changed.emit(val)
set_done(s, r, val) ==
    IF s.rect[r].done = val THEN s
    ELSE done_changed_emit(
             apply_style([s EXCEPT !.rect[r].done = val, !.did.done_changes = @ + 1], r,
                         IF val THEN "done" ELSE "normal"),
             r, val, 0)

\* a done_changed that reaches no slot and is not counted
no_emit(s, r, val, i) == s

\* signals.done_changed.emit(val), from slot i on (0: the emission begins):
\* the slots are the lambdas of _add_bubble, one per call for this
\* rectangle, each setting the check state of the list item of its call
done_changed_emit(s, r, val, i) ==
    IF i = 0 THEN done_changed_emit([s EXCEPT !.did.done_emits = @ + 1], r, val, 1)
    ELSE IF i > Len(s.done_conn[r]) THEN s
    ELSE done_changed_emit(setCheckState(s, s.done_conn[r][i], val), r, val, i + 1)

\* li.setCheckState(Checked if val else Unchecked): RuntimeError for a
\* deleted item; nothing for the state it has; itemChanged when the item is
\* in the list widget, whose slots are _on_bubble_done_changed (connected in
\* _post_init) and then _on_list_done_toggled (connected by every _add_bubble)
setCheckState(s, li, val) ==
    IF ~s.item[li].alive \/ s.item[li].check = val THEN s
    ELSE LET s1 == [s EXCEPT !.item[li].check = val]
         IN  IF li \in Range(s.bubble_list)
             THEN on_list_done_toggled(on_bubble_done_changed(s1, li), li)
             ELSE s1

\* _on_bubble_done_changed(item)
on_bubble_done_changed(s, li) ==
    LET idx == IndexOf(ItemsOf(s.rect_list), li, 1)
        r   == s.rect_list[idx].rect
        s1  == set_done(s, r, s.item[li].check)
        s2  == IF idx = 0 THEN s ELSE [s1 EXCEPT !.rect[r].movable = ~s1.rect[r].done]
    IN  IF s2.current = li THEN on_bubble_selected(s2, li, None) ELSE s2

\* _on_list_done_toggled(item): the setter, then _apply_style() with its
\* default state "normal"
on_list_done_toggled(s, li) ==
    LET idx == IndexOf(ItemsOf(s.rect_list), li, 1)
        r   == s.rect_list[idx].rect
    IN  IF idx = 0 THEN s
        ELSE apply_style(set_done(s, r, s.item[li].check), r, "normal")

\* _toggle_done_selected(), the slot of the Space shortcut
toggle_done_selected(s) ==
    IF s.current = None \/ ~s.item[s.current].alive THEN s
    ELSE setCheckState(s, s.current, ~s.item[s.current].check)

\* a click on the check box of row li: the view sets the other check state
check_clicked(s, li) == setCheckState(s, li, ~s.item[li].check)

\* Mark Done / Unmark Done in a rectangle item's context menu:
\* setattr(self, "done", not self.done)
context_toggle_done(s, r) == set_done(s, r, ~s.rect[r].done)

\* ---------------------------------------------------- registering bubbles
Registered(s, r) == \E i \in 1..Len(s.rect_list) : s.rect_list[i].rect = r

\* viewer.scene().addItem(r) and viewer.add_graphics_item(r): adding an item
\* that already is in the scene changes nothing
addItem(s, r) == [s EXCEPT !.scene = @ \cup {r}]

\* viewer.scene().removeItem(r)
removeItem(s, r) == [s EXCEPT !.scene = @ \ {r}]

\* _add_bubble(rect_item): nothing for a registered rectangle; else a new
\* list item, checked as the rectangle is done, appended to both lists, the
\* rectangle's scene bounding rectangle remembered in _last_geom, and a
\* done_changed slot for the new list item (the slots that held the deleted
\* item whose name the new one takes are forgotten)
add_bubble(s, r) ==
    IF Registered(s, r) THEN s
    ELSE LET li == FreshItem(s)
             conn == [q \in Rects |-> SelectSeq(s.done_conn[q], LAMBDA x : x # li)]
         IN  [boundingRect(s, r) EXCEPT
                       !.item[li] = [rect |-> r, check |-> s.rect[r].done, alive |-> TRUE],
                       !.rect_list = Append(@, [li |-> li, rect |-> r]),
                       !.last_geom[r] = sceneBoundingRect(s, r),
                       !.bubble_list = Append(@, li),
                       !.done_conn = [conn EXCEPT ![r] = Append(@, li)]]

\* _remove_bubble(idx), idx counted from 1: pop the pair, take the rectangle
\* out of the scene, take the row out of the list.  bubble_list.row(li)
\* raises RuntimeError for a list item whose C++ object was deleted.
remove_bubble(s, idx) ==
    LET li == s.rect_list[idx].li
        r  == s.rect_list[idx].rect
        s1 == removeItem([s EXCEPT !.rect_list = RemoveAt(@, idx)], r)
    IN  IF s.item[li].alive THEN takeItem(s1, li) ELSE s1

\* a _remove_bubble_for that finds no pair: the rectangle stays registered
keep_bubble(s, r) == s

\* _remove_bubble_for(rect): the first pair holding rect, if any
remove_bubble_for(s, r) ==
    LET idx == IndexOf(RectsOf(s.rect_list), r, 1)
    IN  IF idx = 0 THEN s ELSE remove_bubble(s, idx)

\* clear_bubbles(): QListWidget.clear() deletes the items it holds
clear_bubbles(s) ==
    [s EXCEPT !.scene = @ \ Range(RectsOf(s.rect_list)),
              !.item = [li \in Items |->
                           IF li \in Range(s.bubble_list)
                           THEN [@[li] EXCEPT !.alive = FALSE] ELSE @[li]],
              !.bubble_list = << >>,
              !.current = None,
              !.rect_list = << >>]

\* ------------------------------------------------------------ the commands
\* History fields of a command, which no handler reads: page, the page
\* displayed when it was created; before, the geometry of the rectangle when
\* the user action that created it began; snap, _rect_list's rectangles when
\* it was created; ran, what the stack did with it last.
AddBubbleCommand(s, r) ==
    [type |-> "add", rect |-> r, row |-> 0, li |-> None,
     old |-> NoGeom, new |-> NoGeom,
     page |-> s.cur_img_path, before |-> NoGeom, snap |-> << >>, ran |-> "pushed"]

\* RemoveBubbleCommand.__init__: the row, counted from 0, and the list item
\* whose data is the rectangle; row -1 when no row holds it (_row is not set)
RemoveBubbleCommand(s, r) ==
    LET data == [i \in 1..Len(s.bubble_list) |-> s.item[s.bubble_list[i]].rect]
        i    == IndexOf(data, r, 1)
    IN  [type |-> "remove", rect |-> r, row |-> i - 1,
         li |-> IF i = 0 THEN None ELSE s.bubble_list[i],
         old |-> NoGeom, new |-> NoGeom,
         page |-> s.cur_img_path, before |-> NoGeom, snap |-> RectsOf(s.rect_list),
         ran |-> "pushed"]

MoveBubbleCommand(s, r, old, new, before) ==
    [type |-> "move", rect |-> r, row |-> 0, li |-> None,
     old |-> old, new |-> new,
     page |-> s.cur_img_path, before |-> before, snap |-> << >>, ran |-> "pushed"]

\* _on_programmatic_move(item, scene_rect): make the rectangle's list item
\* current, then refresh the panel from the current item.  setCurrentItem
\* raises RuntimeError for a deleted list item.
on_programmatic_move(s, r) ==
    LET idx == IndexOf(RectsOf(s.rect_list), r, 1)
        li  == IF idx = 0 THEN None ELSE s.rect_list[idx].li
    IN  IF idx = 0 THEN on_bubble_selected(s, s.current, None)
        ELSE IF ~s.item[li].alive THEN s
        ELSE LET s1 == setCurrentItem(s, li)
             IN  on_bubble_selected(s1, s1.current, None)

\* MoveBubbleCommand._apply(scene_rect)
MoveApply(s, r, g) == on_programmatic_move(SetGeom(s, r, g), r)

\* RemoveBubbleCommand.undo(): insert into _rect_list, then into bubble_list
\* (RuntimeError for a deleted list item, AttributeError when _row is not
\* set: the rest of undo() is skipped), then into the scene, then _mark_dirty
RemoveUndo(s, c) ==
    IF c.row < 0 THEN s
    ELSE LET s1 == [s EXCEPT !.rect_list =
                        InsertAt(@, c.row, [li |-> c.li, rect |-> c.rect])]
         IN  IF ~s.item[c.li].alive THEN s1
             ELSE mark_dirty(addItem(insertItem(s1, c.row, c.li), c.rect))

\* QUndoCommand.redo() of each command
CmdRedo(s, c) ==
    IF c.type = "add" THEN add_bubble(addItem(s, c.rect), c.rect)
    ELSE IF c.type = "remove" THEN remove_bubble_for(s, c.rect)
    ELSE MoveApply(s, c.rect, c.new)

\* QUndoCommand.undo() of each command
CmdUndo(s, c) ==
    IF c.type = "add" THEN remove_bubble_for(s, c.rect)
    ELSE IF c.type = "remove" THEN RemoveUndo(s, c)
    ELSE MoveApply(s, c.rect, c.old)

\* a controller that relays neither signal of its stack
no_relay(s) == s

\* QUndoStack emits canUndoChanged and canRedoChanged when it has changed
\* its index; the controller relays them as can_undo_changed and
\* can_redo_changed to action_undo.setEnabled and action_redo.setEnabled
can_undo_changed(s) ==
    [s EXCEPT !.action_enabled = [undo |-> s.index > 0,
                                  redo |-> s.index < Len(s.stack)]]

\* UndoRedoController.push(cmd): QUndoStack.push calls cmd.redo(), drops the
\* commands above the index and appends cmd
push(s, c) ==
    LET s1 == CmdRedo(s, c)
    IN  can_undo_changed([s1 EXCEPT !.stack = Append(SubSeq(s.stack, 1, s.index), c),
                                    !.index = s.index + 1])

\* UndoRedoController.undo()
undo(s) ==
    IF s.index = 0 THEN s
    ELSE can_undo_changed([CmdUndo(s, s.stack[s.index])
                              EXCEPT !.index = s.index - 1,
                                     !.stack[s.index].ran = "undone"])

\* UndoRedoController.redo()
redo(s) ==
    IF s.index = Len(s.stack) THEN s
    ELSE can_undo_changed([CmdRedo(s, s.stack[s.index + 1])
                              EXCEPT !.index = s.index + 1,
                                     !.stack[s.index + 1].ran = "redone"])

\* ------------------------------------------------------ loading and saving
RECURSIVE RebuildLoop(_, _, _)
\* the "rebuild from data" loop of on_annotations_loaded
RebuildLoop(s, ann_list, i) ==
    IF i > Len(ann_list) THEN s
    ELSE LET e  == ann_list[i]
             r  == FreshRect(s)
             s1 == [s EXCEPT !.rect[r] = NewRect(e.rect, e.kind), !.last_geom[r] = NoGeom,
                             !.done_conn[r] = << >>]
             s2 == set_done(s1, r, e.done)
             s3 == [s2 EXCEPT !.rect[r].ocr_text = e.ocr,
                              !.rect[r].trans = e.translation]
         IN  RebuildLoop(add_bubble(addItem(s3, r), r), ann_list, i + 1)

\* on_annotations_loaded(image_path, ann_list)
on_annotations_loaded(s, image_path, ann_list) ==
    IF image_path # s.cur_img_path THEN s
    ELSE [RebuildLoop(clear_bubbles(s), ann_list, 1) EXCEPT !.dirty = FALSE]

\* the keys of an entry of "bubbles"
Fields == {"rect", "kind", "done", "ocr", "translation"}

\* the values that the entries of the files given to load store under the
\* keys they have (none is the default of its field)
Stored == Entry(Geom(40, 40, 40, 40), "free-text", TRUE, "a", "b")

\* the elements of "bubbles": a JSON object with some of the keys, or a
\* JSON value that is no object (obj FALSE)
JsonEntries ==
    {[obj |-> TRUE, f |-> [k \in K |-> Stored[k]]] : K \in SUBSET Fields}
        \cup {[obj |-> FALSE, f |-> [k \in {} |-> Stored[k]]]}

\* the sidecar files: missing; not JSON ("garbage"); a JSON array; an
\* object without "bubbles"; an object whose "bubbles" is null; an object
\* whose "bubbles" is a list of entries
Files ==
    {[kind |-> k, bubbles |-> << >>] :
        k \in {"missing", "garbage", "array", "no-bubbles", "null-bubbles"}}
        \cup {[kind |-> "bubbles", bubbles |-> es] :
                 es \in UNION {[1..n -> JsonEntries] : n \in 0..MaxEntries}}

\* an AnnotationData with the default of every field but rect
BareAnnotation(entry) == Entry(entry.f["rect"], "bubble", FALSE, "", "")

\* AnnotationData(rect=entry["rect"], kind=entry.get("kind", "bubble"), ...)
AnnotationData(entry) ==
    LET get(k, default) == IF k \in DOMAIN entry.f THEN entry.f[k] ELSE default
    IN  Entry(entry.f["rect"], get("kind", "bubble"), get("done", FALSE),
              get("ocr", ""), get("translation", ""))

\* AnnotationController.load(image_path) for the sidecar file `file`: the
\* lists it emits with annotations_loaded, in order.  json.loads raises for
\* garbage, raw.get for an array, the comprehension for a "bubbles" that is
\* null and for an entry that is no object or has no "rect"; the except
\* clause makes the list empty.
load(file) ==
    LET entries == IF file.kind = "no-bubbles" THEN << >> ELSE file.bubbles
        raises  == \/ file.kind \in {"garbage", "array", "null-bubbles"}
                   \/ \E i \in 1..Len(entries) :
                          ~entries[i].obj \/ "rect" \notin DOMAIN entries[i].f
    IN  IF file.kind = "missing" THEN << << >> >>
        ELSE IF raises THEN << << >> >>
        ELSE << [i \in 1..Len(entries) |-> AnnotationData(entries[i])] >>

\* the sidecar file of a page as load reads it: _on_save_clicked stores
\* every key
FileOf(d) ==
    IF ~d.exists THEN [kind |-> "missing", bubbles |-> << >>]
    ELSE [kind |-> "bubbles",
          bubbles |-> [i \in 1..Len(d.bubbles) |->
                          [obj |-> TRUE, f |-> [k \in Fields |-> d.bubbles[i][k]]]]]

\* AnnotationController.load(image_path): the emitted list
LoadedList(s, image_path) == load(FileOf(s.disk[image_path]))[1]

\* the navigation state set by load_page and on_tree_clicked:
\* sorted(path.parent.glob("*.jpg")) and the index of path in it
Navigate(s, path) ==
    [s EXCEPT !.pages = [i \in 1..NPages |-> i], !.current_page_idx = path - 1]

\* load_page(path); reply is the answer to "Discard annotations?"
load_page(s, path, reply) ==
    IF s.dirty /\ reply # "Yes" THEN [s EXCEPT !.reply = reply]
    ELSE LET s1 == clear_bubbles([s EXCEPT !.cur_img_path = path,
                                           !.reply = IF s.dirty THEN reply ELSE "none"])
             s2 == on_annotations_loaded(s1, path, LoadedList(s1, path))
             s3 == Navigate([s2 EXCEPT !.has_photo = TRUE], path)
         IN  set_property_fields_enabled(s3, FALSE)

\* on_tree_clicked(index) for the index of a *.jpg file; viewer.clear()
\* takes every rectangle item out of the scene
on_tree_clicked(s, path) ==
    LET s1 == clear_bubbles([s EXCEPT !.cur_img_path = path])
        s2 == [s1 EXCEPT !.scene = {}]
        s3 == on_annotations_loaded(s2, path, LoadedList(s2, path))
    IN  Navigate([s3 EXCEPT !.has_photo = TRUE], path)

\* the list _on_save_clicked builds from _rect_list (a list of dicts)
SaveList(s) ==
    [i \in 1..Len(s.rect_list) |->
        LET r == s.rect_list[i].rect
        IN  Entry(sceneBoundingRect(s, r), s.rect[r].kind, s.rect[r].done,
                  s.rect[r].ocr_text, s.rect[r].trans)]

\* AnnotationController.save(image_path, annotations): the payload reads
\* ann.rect of every element, outside the try block; _on_save_clicked passes
\* dicts, which have no attribute rect, so a non-empty list raises
\* AttributeError before anything is written
SaveRaises(annotations) == Len(annotations) > 0

\* on_annotations_saved(image_path), the slot of annotations_saved
on_annotations_saved(s, image_path) ==
    IF image_path = s.cur_img_path
    THEN [s EXCEPT !.dirty = FALSE, !.did.status = "Annotations saved"]
    ELSE s

\* AnnotationController.save(image_path, annotations) once the payload is
\* built: write_text and annotations_saved.emit in a try block whose except
\* clause prints the exception and returns; writable is whether write_text
\* succeeds
save(s, image_path, annotations, writable) ==
    IF writable
    THEN on_annotations_saved(
             [s EXCEPT !.disk[image_path] = [exists |-> TRUE, bubbles |-> annotations],
                       !.did.wrote = TRUE, !.did.saved_emitted = TRUE],
             image_path)
    ELSE s

\* _on_save_clicked(): Save Failed and return when save() raises; else
\* step 4 clears the dirty flag and reports "Saved annotations"
on_save_clicked(s, writable) ==
    LET s1 == BoundAll(s, Range(RectsOf(s.rect_list)))
    IN  IF s.cur_img_path = None THEN s
        ELSE IF SaveRaises(SaveList(s)) THEN [s1 EXCEPT !.did.status = "Save Failed"]
        ELSE [save(s1, s.cur_img_path, SaveList(s), writable)
                 EXCEPT !.dirty = FALSE, !.did.status = "Saved annotations"]

\* ------------------------------------------------------------- user edits
\* _on_new_rect(scene_rect)
on_new_rect(s, r) == push(s, AddBubbleCommand(s, r))

RECURSIVE DeselectLoop(_, _, _)
\* item.setSelected(False) for every rectangle item of the scene but `except`
DeselectLoop(s, except, r) ==
    IF r > MaxRects THEN s
    ELSE DeselectLoop(IF r \in s.scene /\ r # except THEN setSelected(s, r, FALSE) ELSE s,
                      except, r + 1)

\* on_viewer_rect_cleared()
on_viewer_rect_cleared(s) == set_property_fields_enabled(s, FALSE)

\* PanelViewer.deselect_all()
deselect_all(s) == on_viewer_rect_cleared(DeselectLoop(s, None, 1))

\* the Box tool: press on the photo (deselect_all), drag, release; the
\* viewer constructs the item, adds it to the scene and emits rect_created
DrawBoxGesture(s, g) ==
    LET r  == FreshRect(s)
        s1 == deselect_all(s)
        s2 == addItem([s1 EXCEPT !.rect[r] = NewRect(g, "bubble"), !.last_geom[r] = NoGeom,
                                 !.done_conn[r] = << >>], r)
    IN  IF g.w >= 2 * MIN_BOX_SIZE /\ g.h >= 2 * MIN_BOX_SIZE
        THEN on_new_rect(s2, r)
        ELSE s1

\* on_viewer_rect_selected(scene_rect); setCurrentItem raises for a deleted item
on_viewer_rect_selected(s, r) ==
    LET idx == IndexOf(RectsOf(s.rect_list), r, 1)
        li  == IF idx = 0 THEN None ELSE s.rect_list[idx].li
    IN  IF idx = 0 \/ ~s.item[li].alive THEN s
        ELSE LET s1 == setCurrentItem(s, li)
             IN  IF ~s1.rect[r].done THEN set_property_fields_enabled(s1, TRUE) ELSE s1

\* PanelViewer.mousePressEvent on rectangle item r with the Box tool, then
\* MoveableRectItem.mousePressEvent: the item grabs the mouse when it is
\* movable; handle is the resize handle under the pointer, or "none"
PressOnRect(s, r, handle) ==
    LET s1 == DeselectLoop(s, r, 1)
        s2 == setSelected(s1, r, TRUE)
        s3 == on_viewer_rect_selected(s2, r)
    IN  IF s3.rect[r].movable
        THEN [s3 EXCEPT !.grab = r, !.resize_handle = handle,
                        !.press = [geom |-> PosSize(s, r), index |-> s.index]]
        ELSE s3

\* _on_rect_changed(item, new_rect)
on_rect_changed(s, r, new_rect) ==
    LET old_rect == IF s.last_geom[r] = NoGeom THEN new_rect ELSE s.last_geom[r]
    IN  IF old_rect # new_rect
        THEN [push(s, MoveBubbleCommand(s, r, old_rect, new_rect, s.press.geom))
                  EXCEPT !.last_geom[r] = new_rect]
        ELSE s

\* rectangle_changed.emit(sceneBoundingRect()): _add_bubble connects
\* _on_rect_changed once per call, and every slot but the first finds
\* _last_geom equal to the emitted rectangle
emit_rectangle_changed(s, r) ==
    on_rect_changed(boundingRect(s, r), r, sceneBoundingRect(s, r))

\* MoveableRectItem.mouseMoveEvent: a resize by the right handle (width
\* grows by dx, not below min_size) emits rectangle_changed; without a
\* handle the base class moves a movable item
mouseMoveEvent(s, dx) ==
    LET r == s.grab
    IN  IF s.resize_handle # "none"
        THEN LET w  == s.rect[r].w + dx
                 w1 == IF w < 2 * min_size THEN 2 * min_size ELSE w
             IN  emit_rectangle_changed(setRect(s, r, w1, s.rect[r].h), r)
        ELSE IF s.rect[r].movable THEN [s EXCEPT !.rect[r].x = @ + dx]
        ELSE s

\* no button is down
NoPress == [geom |-> NoGeom, index |-> 0]

\* MoveableRectItem.mouseReleaseEvent
mouseReleaseEvent(s) ==
    [emit_rectangle_changed([s EXCEPT !.grab = None, !.resize_handle = "none"], s.grab)
        EXCEPT !.press = NoPress]

\* a spin box is set by the user: on_spin_changed, then _mark_dirty
on_spin_changed(s) ==
    LET idx == IndexOf(ItemsOf(s.rect_list), s.current, 1)
        r   == IF idx = 0 THEN None ELSE s.rect_list[idx].rect
        old == IF s.last_geom[r] = NoGeom THEN PosSize(s, r) ELSE s.last_geom[r]
        new == Geom(2 * s.spin.x, 2 * s.spin.y, 2 * s.spin.w, 2 * s.spin.h)
    IN  IF s.current = None \/ idx = 0 THEN s
        ELSE [push(SetGeom(s, r, new), MoveBubbleCommand(s, r, old, new, PosSize(s, r)))
                  EXCEPT !.last_geom[r] = new]

\* the user steps spin box f up by one: valueChanged runs on_spin_changed,
\* then _mark_dirty
SpinStep(s, f) == mark_dirty(on_spin_changed([s EXCEPT !.spin[f] = @ + 1]))

\* the user types txt into the OCR editor: textChanged is connected to
\* _mark_dirty only (on_ocr_changed is connected to nothing)
OcrTyped(s, txt) == mark_dirty([s EXCEPT !.ocr_output = txt])

\* the user types txt into the translation editor: textChanged is connected
\* to _mark_dirty only (on_translation_changed is connected to nothing)
TransTyped(s, txt) == mark_dirty([s EXCEPT !.trans_edit = txt])

\* Delete in a rectangle item's context menu: delete_block is connected to
\* functools.partial(self._remove_bubble_for, rect_item)
context_delete(s, r) == remove_bubble_for(s, r)

\* prev_page()
prev_page(s, reply) ==
    IF s.current_page_idx > 0
    THEN load_page(s, s.pages[s.current_page_idx], reply)
    ELSE s

\* a Next Page that loads nothing
stay_on_page(s, reply) == s

\* next_page()
next_page(s, reply) ==
    IF s.current_page_idx < Len(s.pages) - 1
    THEN load_page(s, s.pages[s.current_page_idx + 2], reply)
    ELSE s

\* delete_selected_bubble()
delete_selected_bubble(s) ==
    LET idx == IndexOf(ItemsOf(s.rect_list), s.current, 1)
    IN  IF s.current = None \/ idx = 0 THEN s
        ELSE mark_dirty(push(s, RemoveBubbleCommand(s, s.rect_list[idx].rect)))

\* -------------------------------------------------------------- the step
\* the records of the objects nothing refers to any more are forgotten
Collect(s) ==
    [s EXCEPT !.rect = [r \in Rects |-> IF r \in UsedRects(s) THEN @[r] ELSE NoRect],
              !.last_geom = [r \in Rects |-> IF r \in UsedRects(s) THEN @[r] ELSE NoGeom],
              !.item = [li \in Items |-> IF li \in UsedItems(s) THEN @[li] ELSE NoItem],
              !.done_conn = [r \in Rects |->
                                IF r \in UsedRects(s)
                                THEN SelectSeq(@[r], LAMBDA li : li \in UsedItems(s))
                                ELSE << >>]]

\* the fields a handler or a worker returns are stored
Assign(s) ==
    /\ rect' = s.rect /\ item' = s.item
    /\ scene' = s.scene /\ rect_list' = s.rect_list /\ bubble_list' = s.bubble_list
    /\ current' = s.current /\ last_geom' = s.last_geom /\ stack' = s.stack
    /\ index' = s.index /\ dirty' = s.dirty /\ cur_img_path' = s.cur_img_path
    /\ pages' = s.pages /\ current_page_idx' = s.current_page_idx /\ disk' = s.disk
    /\ has_photo' = s.has_photo /\ ocr_output' = s.ocr_output
    /\ trans_edit' = s.trans_edit /\ spin' = s.spin
    /\ fields_enabled' = s.fields_enabled /\ grab' = s.grab
    /\ resize_handle' = s.resize_handle
    /\ pressed' = s.press /\ answered' = s.reply
    /\ done_conn' = s.done_conn /\ did' = s.did
    /\ action_enabled' = s.action_enabled
    /\ detection_queue' = s.detection_queue /\ det_hist' = s.det_hist
    /\ budget' = budget
    /\ workers' = s.workers /\ ocr_queue' = s.ocr_queue
    /\ UNCHANGED << load_call, models, calls >>

\* the step that stores the fields a handler returns
Store(s) == Assign(s) /\ ops' = ops + 1

\* one user operation: its handler runs to completion
Commit(s) == ops < budget /\ Store(Collect(Repaint(s)))

\* the window's variables
ui == << rect, item, scene, rect_list, bubble_list, current,
         last_geom, stack, index, dirty, cur_img_path, pages, current_page_idx,
         disk, has_photo, ocr_output, trans_edit, spin, fields_enabled,
         grab, resize_handle, pressed, answered, done_conn, did, ops, budget,
         action_enabled, detection_queue, det_hist >>

\* the two model wrappers of the window
ModelNames == {"detector", "ocr"}

\* a ready() that is true from the start
always_ready(md) == TRUE

\* ready(): self._ready.is_set()
ready(md) == md.ready

\* ---- OCR in the background ----

\* viewer.crop_region(g) is not None and not empty: the rectangle g (half
\* pixels) truncated to whole pixels and clamped to the image
crop_region(s, g) ==
    LET int(v) == IF v >= 0 THEN v \div 2 ELSE 0 - ((0 - v) \div 2)
        max0(v) == IF v < 0 THEN 0 ELSE v
        min(a, b) == IF a < b THEN a ELSE b
        x == min(max0(int(g.x)), ImageSide)
        y == min(max0(int(g.y)), ImageSide)
        w == min(max0(int(g.w)), ImageSide - x)
        h == min(max0(int(g.h)), ImageSide - y)
    IN  s.has_photo /\ w > 0 /\ h > 0

\* a worker that assigns the text to the rectangle item itself
write_ocr_text(s, r, text) == [s EXCEPT !.rect[r].ocr_text = text]

\* self.ocr_done.emit(rect, text) in a worker thread: the call of the slot
\* is queued for the UI thread
emit_ocr_done(s, r, text) ==
    [s EXCEPT !.ocr_queue = Append(@, [rect |-> r, text |-> text])]

\* on_run_ocr(): next(...) raises StopIteration when the current item is in
\* no pair of _rect_list
on_run_ocr(s) ==
    LET idx == IndexOf(ItemsOf(s.rect_list), s.current, 1)
        r   == s.rect_list[idx].rect
        s1  == boundingRect(s, r)
    IN  IF s.current = None \/ idx = 0 THEN s
        ELSE IF ~ready(s.models["ocr"]) THEN s
        ELSE IF ~crop_region(s1, sceneBoundingRect(s1, r)) THEN s1
        ELSE [s1 EXCEPT !.did.status = "Running OCR...",
                        !.workers = Append(@, [kind |-> "one", rect |-> r,
                                               idx |-> 0, pc |-> "run"])]

\* on_run_ocr_all()
on_run_ocr_all(s) ==
    IF s.rect_list = << >> THEN s
    ELSE [s EXCEPT !.did.status = "Running OCR on all bubbles",
                   !.workers = Append(@, [kind |-> "all", rect |-> None,
                                          idx |-> 0, pc |-> "run"])]

\* the regions that the detector finds on a page: class and box (xyxy[0],
\* xyxy[1], xywh[2], xywh[3]); one speech bubble on page 1, one free text
\* on every other page
DetectedOn(path) ==
    IF path = 1 THEN << [cls |-> 0, box |-> Geom(60, 60, 40, 40)] >>
    ELSE << [cls |-> 1, box |-> Geom(80, 20, 40, 40)] >>

\* on_detect_bubbles(); reply is the answer to "Overwrite bubbles?"
on_detect_bubbles(s, reply) ==
    IF s.cur_img_path = None \/ ~ready(s.models["detector"]) THEN s
    ELSE IF s.rect_list # << >> /\ reply = "No" THEN [s EXCEPT !.reply = reply]
    ELSE LET s1 == IF s.rect_list # << >>
                   THEN clear_bubbles([s EXCEPT !.reply = reply]) ELSE s
         IN  [s1 EXCEPT !.did.status = "Detecting bubbles...",
                        !.workers = Append(@, [kind |-> "detect", rect |-> None,
                                               idx |-> 0, pc |-> "run"])]

\* the worker of on_detect_bubbles: detect(self.cur_img_path), the page
\* displayed when the thread gets there, then detection_done.emit(detections),
\* queued for the UI thread
detect_worker(s, k) ==
    IF ~ready(s.models["detector"]) THEN [s EXCEPT !.workers[k].pc = "raised"]
    ELSE [s EXCEPT !.workers = RemoveAt(@, k),
                   !.detection_queue =
                       Append(@, [page |-> s.cur_img_path,
                                  regions |-> DetectedOn(s.cur_img_path)])]

\* _apply_detections(detections), the slot of detection_done, for the
\* first queued call: each region becomes a MoveableRectItem at the box,
\* of kind "bubble" for class 0 and "free-text" otherwise, not done and
\* without texts, added to the scene and registered by _add_bubble
apply_detections(s) ==
    LET dets == s.detection_queue[1].regions
        anns == [i \in 1..Len(dets) |->
                    Entry(dets[i].box,
                          IF dets[i].cls = 0 THEN "bubble" ELSE "free-text",
                          FALSE, "", "")]
    IN  [RebuildLoop([s EXCEPT !.detection_queue = Tail(@)], anns, 1)
            EXCEPT !.did.status = "Found regions"]

\* worker k runs on: the worker of on_detect_bubbles and the worker of
\* on_run_ocr to their end, the worker of on_run_ocr_all through one
\* iteration of its loop over the live _rect_list.  recognize raises
\* RuntimeError while the engine is not ready and the thread ends; a thread
\* that has returned is forgotten.
worker(s, k) ==
    LET w   == s.workers[k]
        r   == IF w.kind = "one" THEN w.rect ELSE s.rect_list[w.idx + 1].rect
        s1  == boundingRect(s, r)
        end == [s EXCEPT !.workers = RemoveAt(@, k)]
    IN  IF w.kind = "detect" THEN detect_worker(s, k)
        ELSE IF w.kind = "one"
        THEN IF ~ready(s.models["ocr"]) THEN [s EXCEPT !.workers[k].pc = "raised"]
             ELSE emit_ocr_done(end, r, Recognized)
        ELSE IF w.idx >= Len(s.rect_list)
             THEN [end EXCEPT !.did.status = "OCR all complete"]
        ELSE IF ~crop_region(s1, sceneBoundingRect(s1, r))
             THEN [s1 EXCEPT !.workers[k].idx = @ + 1]
        ELSE IF ~ready(s.models["ocr"]) THEN [s1 EXCEPT !.workers[k].pc = "raised"]
        ELSE [emit_ocr_done(s1, r, Recognized)
                 EXCEPT !.workers[k].idx = @ + 1, !.did.status = "OCR all"]

\* a slot of ocr_done that shows every text that arrives in the OCR editor
show_ocr_text(s) ==
    OcrTyped([s EXCEPT !.ocr_queue = Tail(@),
                       !.rect[s.ocr_queue[1].rect].ocr_text = s.ocr_queue[1].text],
             s.ocr_queue[1].text)

\* _on_ocr_done(rect_item, text), the slot of ocr_done, for the first queued
\* call: ocr_output.setPlainText emits textChanged, connected to _mark_dirty
on_ocr_done(s) ==
    LET r    == s.ocr_queue[1].rect
        text == s.ocr_queue[1].text
        s1   == [s EXCEPT !.ocr_queue = Tail(@), !.rect[r].ocr_text = text]
        s2   == IF s.current # None
                   /\ \E i \in 1..Len(s.rect_list) :
                          s.rect_list[i].li = s.current /\ s.rect_list[i].rect = r
                THEN OcrTyped(s1, text) ELSE s1
    IN  [s2 EXCEPT !.did.status = "OCR complete"]

\* no call of load is followed
NoLoadCall == [file |-> [kind |-> "missing", bubbles |-> << >>], called |-> FALSE,
               emitted |-> << >>]

\* ------------------------------------------------------------------- Init
\* the window after MainWindow.__init__
Start ==
    /\ rect = [r \in Rects |-> NoRect]
    /\ item = [li \in Items |-> NoItem]
    /\ scene = {}
    /\ rect_list = << >>
    /\ bubble_list = << >>
    /\ current = None
    /\ last_geom = [r \in Rects |-> NoGeom]
    /\ stack = << >>
    /\ index = 0
    /\ dirty = FALSE
    /\ cur_img_path = None
    /\ pages = << >>
    /\ current_page_idx = -1
    /\ disk = InitDisk
    /\ has_photo = FALSE
    /\ ocr_output = ""
    /\ trans_edit = ""
    /\ spin = Geom(0, 0, 1, 1)
    /\ fields_enabled = FALSE
    /\ grab = None
    /\ resize_handle = "none"
    /\ pressed = NoPress
    /\ answered = "none"
    /\ done_conn = [r \in Rects |-> << >>]
    /\ did = NoDid
    /\ action_enabled = [undo |-> FALSE, redo |-> FALSE]
    /\ detection_queue = << >>
    /\ det_hist = [ops0 |-> 0, n |-> 0]
    /\ ops = 0
    /\ models = [m \in ModelNames |-> [model |-> FALSE, ready |-> FALSE, loader |-> "loading"]]
    /\ calls = << >>
    /\ workers = << >>
    /\ ocr_queue = << >>

\* ---- the model wrappers: SpeechBubbleDetector and OCREngine ----

\* the loader thread's `self._model = YOLO(...)`, `self._ocr = MangaOcr()`
LoadModel ==
    \E m \in ModelNames :
        /\ models[m].loader = "loading"
        /\ models' = [models EXCEPT ![m].model = TRUE, ![m].loader = "assigned"]
        /\ UNCHANGED << ui, load_call, calls, workers, ocr_queue >>

\* the import or the constructor of the model raises: the loader thread ends
LoadFails ==
    \E m \in ModelNames :
        /\ models[m].loader = "loading"
        /\ models' = [models EXCEPT ![m].loader = "failed"]
        /\ UNCHANGED << ui, load_call, calls, workers, ocr_queue >>

\* the loader thread's `self._ready.set()`
SetReady ==
    \E m \in ModelNames :
        /\ models[m].loader = "assigned"
        /\ models' = [models EXCEPT ![m].ready = TRUE, ![m].loader = "done"]
        /\ UNCHANGED << ui, load_call, calls, workers, ocr_queue >>

\* some thread enters detect (m = "detector") or recognize (m = "ocr")
CallModel ==
    \E m \in ModelNames :
        /\ Len(calls) < MaxCalls
        /\ calls' = Append(calls, [m |-> m, pc |-> "entered", touched |-> FALSE])
        /\ UNCHANGED << ui, load_call, models, workers, ocr_queue >>

\* `if not self.ready(): raise RuntimeError(...)`
CheckReady ==
    \E i \in DOMAIN calls :
        /\ calls[i].pc = "entered"
        /\ calls' = [calls EXCEPT ![i].pc = IF ready(models[calls[i].m])
                                              THEN "checked" ELSE "raised"]
        /\ UNCHANGED << ui, load_call, models, workers, ocr_queue >>

\* `self._model(str(image_path))`, `self._ocr(image)`: calling None raises
\* TypeError
UseModel ==
    \E i \in DOMAIN calls :
        /\ calls[i].pc = "checked"
        /\ calls' = [calls EXCEPT ![i].touched = TRUE,
                                   ![i].pc = IF models[calls[i].m].model
                                             THEN "returned" ELSE "crashed"]
        /\ UNCHANGED << ui, load_call, models, workers, ocr_queue >>

InitModels == Start /\ budget = 0 /\ load_call = NoLoadCall

NextModels ==
    LoadModel \/ LoadFails \/ SetReady \/ CallModel \/ CheckReady \/ UseModel

SpecModels == InitModels /\ [][NextModels]_vars

Init == Start /\ budget = MaxOps /\ load_call = NoLoadCall

\* ---------------------------------------------------------------- actions
\* no mouse gesture on a rectangle is in progress
Idle == grab = None

\* room for the objects that loading `path` constructs, s0 being the
\* window once the handler has cleared the bubbles
RoomToLoad(s0, path) ==
    /\ Cardinality(Rects \ UsedRects(s0)) >= Len(LoadedList(s0, path))
    /\ Cardinality(Items \ TakenItems(s0)) >= Len(LoadedList(s0, path))

Replies == IF dirty THEN {"Yes", "No"} ELSE {"none"}

\* a click on an image of the file tree
TreeClicked ==
    \E path \in Pages :
        /\ Idle
        /\ RoomToLoad([clear_bubbles(St) EXCEPT !.scene = {}], path)
        /\ Commit(on_tree_clicked(St, path))

\* View > Previous Page
PrevPage ==
    \E reply \in Replies :
        /\ Idle
        /\ current_page_idx > 0 =>
               RoomToLoad(clear_bubbles(St), pages[current_page_idx])
        /\ Commit(prev_page(St, reply))

\* View > Next Page
NextPage ==
    \E reply \in Replies :
        /\ Idle
        /\ current_page_idx < Len(pages) - 1 =>
               RoomToLoad(clear_bubbles(St), pages[current_page_idx + 2])
        /\ Commit(next_page(St, reply))

\* File > Save; the sidecar file can be written or not (a read-only file,
\* a full disk)
SaveClicked ==
    \E writable \in BOOLEAN :
        /\ Idle
        /\ Commit(on_save_clicked(St, writable))

\* a box dragged out on the photo with the Box tool
DrawBox ==
    \E g \in Boxes :
        /\ Idle /\ has_photo
        /\ UsedRects(St) # Rects /\ TakenItems(St) # Items
        /\ Commit(DrawBoxGesture(St, g))

\* the left button goes down on a rectangle item of the scene
MousePress ==
    \E r \in scene, handle \in {"none", "right"} :
        /\ Idle /\ has_photo
        /\ Commit(PressOnRect(St, r, handle))

\* the mouse moves while a rectangle item holds it
MouseMove ==
    /\ ~Idle
    /\ Commit(mouseMoveEvent(St, DragStep))

\* the left button is released
MouseRelease ==
    /\ ~Idle
    /\ Commit(mouseReleaseEvent(St))

\* the user steps x_spin or w_spin up by one
SpinEdited ==
    \E f \in {"x", "w"} :
        /\ Idle /\ fields_enabled /\ spin[f] < SpinMax
        /\ Commit(SpinStep(St, f))

\* the user types into the OCR editor
OcrEdited ==
    \E txt \in Typed :
        /\ Idle /\ fields_enabled /\ txt # ocr_output
        /\ Commit(OcrTyped(St, txt))

\* the user types into the translation editor
TransEdited ==
    \E txt \in Typed :
        /\ Idle /\ fields_enabled /\ txt # trans_edit
        /\ Commit(TransTyped(St, txt))

\* the user clicks a row of the bubble list
RowClicked ==
    \E li \in Range(bubble_list) :
        /\ Idle /\ li # current
        /\ Commit(setCurrentItem(St, li))

\* Edit > Delete Bubble
DeleteSelected ==
    /\ Idle
    /\ Commit(delete_selected_bubble(St))

\* Delete in the context menu of a rectangle item
ContextDelete ==
    \E r \in scene :
        /\ Idle
        /\ Commit(context_delete(St, r))

\* Edit > Delete all Bubbles
ClearBubbles ==
    /\ Idle
    /\ Commit(clear_bubbles(St))

\* a click on the check box of a row of the bubble list
CheckClicked ==
    \E li \in Range(bubble_list) :
        /\ Idle
        /\ Commit(check_clicked(St, li))

\* the Space shortcut
SpaceToggled ==
    /\ Idle
    /\ Commit(toggle_done_selected(St))

\* Mark Done or Unmark Done in the context menu of a rectangle item
ContextToggleDone ==
    \E r \in scene :
        /\ Idle
        /\ Commit(context_toggle_done(St, r))

\* Edit > Undo, enabled while the stack can undo
Undo ==
    /\ Idle /\ action_enabled.undo
    /\ Commit(undo(St))

\* Edit > Redo, enabled while the stack can redo
Redo ==
    /\ Idle /\ action_enabled.redo
    /\ (stack[index + 1].type = "add" /\ ~Registered(St, stack[index + 1].rect))
           => TakenItems(St) # Items
    /\ Commit(redo(St))

Next ==
    \/ TreeClicked
    \/ PrevPage
    \/ NextPage
    \/ SaveClicked
    \/ DrawBox
    \/ MousePress
    \/ MouseMove
    \/ MouseRelease
    \/ SpinEdited
    \/ OcrEdited
    \/ TransEdited
    \/ RowClicked
    \/ DeleteSelected
    \/ ContextDelete
    \/ ClearBubbles
    \/ CheckClicked
    \/ SpaceToggled
    \/ ContextToggleDone
    \/ Undo
    \/ Redo

Spec == Init /\ [][Next]_vars

\* the runs in which the user loads pages from the tree and edits with the
\* bubble list, the spin boxes and the Edit menu only
InitUndo == Start /\ budget = MaxUndoOps /\ load_call = NoLoadCall

NextUndo ==
    \/ TreeClicked
    \/ RowClicked
    \/ SpinEdited
    \/ DeleteSelected
    \/ ClearBubbles
    \/ CheckClicked
    \/ Undo
    \/ Redo

SpecUndo == InitUndo /\ [][NextUndo]_vars

\* ---- the window with its OCR workers ----

\* Tools > Run OCR on Selection
RunOcr ==
    /\ Idle /\ Len(workers) < MaxWorkers
    /\ Commit(on_run_ocr(St))

\* Tools > Run OCR
RunOcrAll ==
    /\ Idle /\ Len(workers) < MaxWorkers
    /\ Commit(on_run_ocr_all(St))

\* a worker thread runs on
WorkerStep ==
    \E k \in DOMAIN workers :
        /\ workers[k].pc = "run"
        /\ Assign(worker(St, k)) /\ ops' = ops

\* the UI thread delivers the first queued ocr_done
OcrDone ==
    /\ ocr_queue # << >>
    /\ Commit(on_ocr_done(St))

InitOcr == Start /\ budget = MaxOcrOps /\ load_call = NoLoadCall

NextOcr ==
    \/ TreeClicked \/ RowClicked \/ DeleteSelected \/ ClearBubbles
    \/ LoadModel \/ LoadFails \/ SetReady
    \/ RunOcr \/ RunOcrAll \/ WorkerStep \/ OcrDone

SpecOcr == InitOcr /\ [][NextOcr]_vars

\* ---- the window with its detection workers ----

\* a detection run is under way: its worker runs or its result is queued
Outstanding(s) ==
    s.detection_queue # << >>
        \/ \E k \in DOMAIN s.workers : s.workers[k].kind = "detect"

\* on_detect_bubbles() is called, the slot of action_detect_bubbles.triggered
\* (Tools > Detect Bubbles (YOLO)).  _post_init disables that action and
\* nothing in the window enables it: these are the runs of the window once
\* the action is enabled.
DetectBubbles ==
    \E reply \in IF rect_list # << >> THEN {"Yes", "No"} ELSE {"none"} :
        LET s == on_detect_bubbles(St, reply)
        IN  /\ Idle /\ Len(workers) < MaxWorkers
            /\ Commit([s EXCEPT !.det_hist =
                          IF Len(s.workers) > Len(workers) /\ ~Outstanding(St)
                          THEN [ops0 |-> ops, n |-> 1]
                          ELSE [@ EXCEPT !.n = @ + 1]])

\* the UI thread delivers the first queued detection_done
DetectionDone ==
    /\ detection_queue # << >>
    /\ Cardinality(Rects \ UsedRects(St)) >= Len(detection_queue[1].regions)
    /\ Cardinality(Items \ TakenItems(St)) >= Len(detection_queue[1].regions)
    /\ Commit([apply_detections(St) EXCEPT !.det_hist.n = @ + 1])

NextDetect ==
    \/ TreeClicked \/ LoadModel \/ SetReady
    \/ DetectBubbles \/ WorkerStep \/ DetectionDone

SpecDetect == InitOcr /\ [][NextDetect]_vars

\* AnnotationController.load on any sidecar file
InitLoad ==
    /\ Start /\ budget = 0
    /\ load_call \in {[file |-> f, called |-> FALSE, emitted |-> << >>] : f \in Files}

\* annotations.load(path)
LoadCalled ==
    /\ ~load_call.called
    /\ load_call' = [load_call EXCEPT !.called = TRUE, !.emitted = load(load_call.file)]
    /\ UNCHANGED << ui, models, calls, workers, ocr_queue >>

NextLoad == LoadCalled

SpecLoad == InitLoad /\ [][NextLoad]_vars

\* -------------------------------------------------------------- properties
\* the rectangles of _rect_list, in order
Listed == RectsOf(rect_list)

\* the rectangles that the rows of bubble_list refer to, in row order
RowRects == [i \in 1..Len(bubble_list) |-> item[bubble_list[i]].rect]

\* the rectangle of the current row of bubble_list, if it is registered
CurrentRect ==
    LET i == IndexOf(ItemsOf(rect_list), current, 1)
    IN  IF current = None \/ i = 0 THEN None ELSE rect_list[i].rect

Count(seq, v) == Cardinality({i \in 1..Len(seq) : seq[i] = v})
Without(seq, v) == SelectSeq(seq, LAMBDA x : x # v)

\* what an annotation is: geometry, kind, done flag and the two texts
Ann(q) ==
    [rect |-> Geom(q.x, q.y, q.w, q.h), kind |-> q.kind, done |-> q.done,
     ocr |-> q.ocr_text, translation |-> q.trans]

\* the annotations of the displayed page
Shown ==
    [list |-> rect_list, rows |-> bubble_list, scene |-> scene,
     anns |-> [r \in Rects |-> IF r \in scene \cup Range(Listed)
                               THEN Ann(rect[r]) ELSE Ann(NoRect)]]

\* C1: between operations the scene, _rect_list and the rows of bubble_list
\* hold the same rectangles, and _rect_list is in the row order of bubble_list.
C1_RectSetsAgree == scene = Range(Listed) /\ RowRects = Listed

\* C2: undoing a MoveBubbleCommand puts the rectangle back at the geometry
\* (x, y, w, h) that it had when the user action that created the command began.
C2_UndoRestoresGeometry ==
    [][(Undo /\ stack[index].type = "move")
          => Ann(rect'[stack[index].rect]).rect = stack[index].before]_vars

\* C3: undoing a RemoveBubbleCommand puts the rectangle and its list item back
\* at the row of the command in _rect_list and in bubble_list and puts the
\* rectangle into the scene, and the rectangles and their order are then those
\* that the command found when it was created.
C3_UndoRestoresRow ==
    [][(Undo /\ stack[index].type = "remove")
          => LET c == stack[index]
             IN  /\ c.row + 1 \in 1..Len(rect_list')
                 /\ rect_list'[c.row + 1] = [li |-> c.li, rect |-> c.rect]
                 /\ c.row + 1 \in 1..Len(bubble_list')
                 /\ bubble_list'[c.row + 1] = c.li
                 /\ c.rect \in scene'
                 /\ Listed' = c.snap
                 /\ RowRects' = c.snap]_vars

\* the rectangle of command c is, after the step, once in _rect_list, once in
\* the rows of bubble_list and in the scene
OnceAfter(c) ==
    /\ Count(Listed', c.rect) = 1
    /\ Count(RowRects', c.rect) = 1
    /\ c.rect \in scene'

\* the annotations other than the rectangle of command c are the same after
\* the step
OthersKept(c) ==
    /\ Without(Listed', c.rect) = Without(Listed, c.rect)
    /\ Without(RowRects', c.rect) = Without(RowRects, c.rect)
    /\ scene' \ {c.rect} = scene \ {c.rect}
    /\ \A r \in Range(Listed) \ {c.rect} : Ann(rect'[r]) = Ann(rect[r])

\* C4: pushing an AddBubbleCommand registers its rectangle exactly once in the
\* scene, in _rect_list and in bubble_list; its undo removes exactly that
\* rectangle and its row and keeps every other annotation; its redo registers
\* the rectangle exactly once again, at the end of the lists as the push did.
C4_AddCommand ==
    [][/\ (DrawBox /\ index' = index + 1)
            => /\ stack'[index'].type = "add"
               /\ OnceAfter(stack'[index'])
               /\ Listed' = Append(Listed, stack'[index'].rect)
               /\ OthersKept(stack'[index'])
       /\ (Undo /\ stack[index].type = "add")
            => /\ Count(Listed', stack[index].rect) = 0
               /\ Count(RowRects', stack[index].rect) = 0
               /\ stack[index].rect \notin scene'
               /\ OthersKept(stack[index])
       /\ (Redo /\ stack[index + 1].type = "add")
            => /\ OnceAfter(stack[index + 1])
               /\ Listed' = Append(Listed, stack[index + 1].rect)
               /\ RowRects' = Append(RowRects, stack[index + 1].rect)
               /\ OthersKept(stack[index + 1])]_vars

\* an AddBubbleCommand that was pushed, undone and redone, its rectangle
\* registered once
C4_Redone ==
    \E i \in 1..index :
        /\ stack[i].type = "add" /\ stack[i].ran = "redone"
        /\ Count(Listed, stack[i].rect) = 1
        /\ Count(RowRects, stack[i].rect) = 1
        /\ stack[i].rect \in scene

\* C5: a gesture on a rectangle (press, moves, release) has pushed exactly one
\* command when the button is released, and none when the rectangle is, at the
\* release, where it was at the press.
C5_OneCommandPerGesture ==
    [][MouseRelease
          => IF PosSize(St, grab) = pressed.geom
             THEN index' = pressed.index
             ELSE index' = pressed.index + 1]_vars

\* C6: a drawn box, a deletion by the Delete action and a deletion by the
\* context menu that change the registered rectangles each leave, on top of
\* the undo stack, a command for the rectangle added or removed.
C6_EditsLeaveCommand ==
    [][((DrawBox \/ DeleteSelected \/ ContextDelete) /\ Listed' # Listed)
          => /\ index' = index + 1
             /\ stack'[index'].type \in {"add", "remove"}
             /\ stack'[index'].rect \in
                    (Range(Listed) \ Range(Listed')) \cup (Range(Listed') \ Range(Listed))]_vars

\* C7: an undo or a redo of a command that was created while another page
\* was displayed changes no annotation of the displayed page.
C7_NoForeignCommand ==
    [][/\ (Undo /\ stack[index].page # cur_img_path) => Shown' = Shown
       /\ (Redo /\ stack[index + 1].page # cur_img_path) => Shown' = Shown]_vars

\* C8: after File > Save on a loaded page, loading that page restores the
\* list that was saved: the same rect, kind, done flag, OCR text and
\* translation for every annotation, in the same order.
C8_SaveRoundTrip ==
    [][(SaveClicked /\ cur_img_path # None)
          => LoadedList([disk |-> disk'], cur_img_path) = SaveList(St)]_vars

\* C9: when the user edits the OCR text or the translation while a bubble is
\* the current list item, that bubble's ocr_text or trans is the edited text.
C9_TextEditsReachBubble ==
    [][/\ (OcrEdited /\ CurrentRect # None)
            => rect'[CurrentRect].ocr_text = ocr_output'
       /\ (TransEdited /\ CurrentRect # None)
            => rect'[CurrentRect].trans = trans_edit']_vars

\* C10: while the dirty flag is set, a page switch (Previous Page, Next Page,
\* a click on an image of the file tree) that the user did not confirm with
\* Yes leaves the displayed page, the page index and the annotations as they
\* were.
C10_DirtySwitchConfirmed ==
    [][((TreeClicked \/ PrevPage \/ NextPage) /\ dirty /\ answered' # "Yes")
          => /\ cur_img_path' = cur_img_path
             /\ current_page_idx' = current_page_idx
             /\ Shown' = Shown]_vars

\* the annotations of the rectangles of _rect_list, in order
PageAnns == [i \in 1..Len(Listed) |-> Ann(rect[Listed[i]])]

\* the status text reports a successful save
SaidSaved == did.status \in {"Saved annotations", "Annotations saved"}

\* C11: File > Save on a loaded page clears the dirty flag and reports success
\* only when the sidecar file was written; when it was not written, the dirty
\* flag is as before, the annotations are unchanged, annotations_saved was not
\* emitted and no success is reported.
C11_SaveOnlyWhenWritten ==
    [][(SaveClicked /\ cur_img_path # None /\ ~did'.wrote)
          => /\ dirty' = dirty
             /\ Shown' = Shown
             /\ ~did'.saved_emitted
             /\ ~SaidSaved']_vars

\* the page that the step displays is page `target`: it is the current
\* image, pages is the sorted list of its siblings with the index at it, and
\* the annotations are those of its sidecar file
Displays(target) ==
    /\ cur_img_path' = target
    /\ pages' = [i \in 1..NPages |-> i]
    /\ current_page_idx' \in 0..(Len(pages') - 1)
    /\ pages'[current_page_idx' + 1] = target
    /\ PageAnns' = LoadedList(St, target)

\* the step leaves the displayed page, the navigation state and the
\* annotations alone
StaysOnPage ==
    /\ cur_img_path' = cur_img_path /\ pages' = pages
    /\ current_page_idx' = current_page_idx
    /\ Shown' = Shown /\ dirty' = dirty

C17_DoneNotMovable ==
    \A r \in scene \cup Range(Listed) : rect[r].done => ~rect[r].movable

\* list item li is checked; a deleted item is not
Checked(li) == item[li].alive /\ item[li].check

\* C18: for every pair of _rect_list, the list item is checked exactly when
\* the rectangle's done flag is set.
C18_CheckIsDone ==
    \A i \in 1..Len(rect_list) :
        Checked(rect_list[i].li) = rect[rect_list[i].rect].done

\* C19: in every operation each change of a done flag emits done_changed
\* once and nothing else emits it (a set to the value the rectangle has
\* changes and emits nothing), and the chain of handlers that a toggle starts
\* changes each rectangle of the page at most once.
C19_DoneSyncTerminates ==
    [][/\ did'.done_emits = did'.done_changes
       /\ did'.done_changes <= MaxRects
       /\ ((CheckClicked \/ SpaceToggled \/ ContextToggleDone) /\ did'.done_changes = 0)
              => \A r \in Rects : rect'[r].done = rect[r].done]_vars

\* an operation changed a done flag and the list item of the rectangle with it
C19_Toggled ==
    /\ did.done_changes = 1 /\ did.done_emits = 1
    /\ \E i \in 1..Len(rect_list) :
           rect[rect_list[i].rect].done /\ item[rect_list[i].li].check

\* the integer part of a length in half pixels, in pixels
IntPart(v) == IF v >= 0 THEN v \div 2 ELSE 0 - ((0 - v) \div 2)

\* after the step the list item of rectangle r is current and the panel shows
\* the integer parts of r's position and size
Selects(r) ==
    /\ current' # None
    /\ \E i \in 1..Len(rect_list') : rect_list'[i] = [li |-> current', rect |-> r]
    /\ current' \in Range(bubble_list')
    /\ spin' = Geom(IntPart(rect'[r].x), IntPart(rect'[r].y),
                    IntPart(rect'[r].w), IntPart(rect'[r].h))

\* C20: after an undo or a redo of a MoveBubbleCommand whose rectangle is in
\* _rect_list, the rectangle's list item is the current item and the X, Y,
\* Width and Height fields show the integer parts of its position and size.
C20_MoveSelects ==
    [][/\ (Undo /\ stack[index].type = "move" /\ Registered(St, stack[index].rect))
            => Selects(stack[index].rect)
       /\ (Redo /\ stack[index + 1].type = "move" /\ Registered(St, stack[index + 1].rect))
            => Selects(stack[index + 1].rect)]_vars

\* the sidecar file cannot be parsed into annotations
Unparsable(file) ==
    \/ file.kind \in {"garbage", "array", "null-bubbles"}
    \/ \E i \in 1..Len(file.bubbles) :
           ~file.bubbles[i].obj \/ "rect" \notin DOMAIN file.bubbles[i].f

\* the stored entry with the default value for every field it lacks
WithDefaults(entry) ==
    [rect |-> entry.f["rect"],
     kind |-> IF "kind" \in DOMAIN entry.f THEN entry.f["kind"] ELSE "bubble",
     done |-> IF "done" \in DOMAIN entry.f THEN entry.f["done"] ELSE FALSE,
     ocr |-> IF "ocr" \in DOMAIN entry.f THEN entry.f["ocr"] ELSE "",
     translation |-> IF "translation" \in DOMAIN entry.f
                     THEN entry.f["translation"] ELSE ""]

\* C16: a call of AnnotationController.load emits annotations_loaded exactly
\* once: the empty list when the sidecar file is missing or cannot be parsed
\* (an entry without "rect" included), else one AnnotationData per stored
\* entry, in file order, with kind "bubble", done False, ocr "" and
\* translation "" for the fields that the entry lacks.
C16_LoadEmitsOnce ==
    load_call.called =>
        /\ Len(load_call.emitted) = 1
        /\ load_call.emitted[1] =
               IF load_call.file.kind = "missing" \/ Unparsable(load_call.file)
               THEN << >>
               ELSE [i \in 1..Len(load_call.file.bubbles) |->
                        WithDefaults(load_call.file.bubbles[i])]

\* load was called on a file of MaxEntries entries, one of them without
\* "kind" and one with it, and emitted one annotation for each
C16_LoadedWithDefaults ==
    /\ load_call.called /\ load_call.file.kind = "bubbles"
    /\ Len(load_call.emitted[1]) = MaxEntries
    /\ \E i, j \in 1..MaxEntries :
           /\ "kind" \notin DOMAIN load_call.file.bubbles[i].f
           /\ load_call.emitted[1][i].kind = "bubble"
           /\ load_call.emitted[1][j].kind = "free-text"

\* C12: a call of detect or recognize that finds ready() false raises
\* RuntimeError, and a call that raised never touched the model; a call
\* touches the model only when ready() is true; ready() is true only when
\* the loader thread has assigned the model reference; and once true
\* ready() stays true.
C12_ReadyGate ==
    /\ [](/\ \A m \in ModelNames : ready(models[m]) => models[m].model
          /\ \A i \in DOMAIN calls :
                /\ calls[i].pc = "raised" => ~calls[i].touched
                /\ calls[i].touched => models[calls[i].m].ready)
    /\ [][/\ \A m \in ModelNames : models[m].ready => models'[m].ready
          /\ \A i \in DOMAIN calls :
                (calls[i].pc = "entered" /\ calls'[i].pc # "entered"
                    /\ ~models[calls[i].m].ready)
                => (calls'[i].pc = "raised" /\ ~calls'[i].touched)]_vars

\* one call of a wrapper raised before the model was ready and a later
\* call of the same wrapper used the model
C12_RaisedThenUsed ==
    \E i, j \in DOMAIN calls :
        /\ calls[i].m = calls[j].m /\ calls[i].pc = "raised"
        /\ calls[j].pc = "returned" /\ calls[j].touched

\* C13: no worker thread raises the not-ready RuntimeError: a handler
\* starts a worker that calls a model only when that model is ready.
C13_NoWorkerRaises ==
    \A k \in DOMAIN workers : workers[k].pc # "raised"

\* the annotation data: _rect_list, the rows and the entries of the list,
\* and the fields of every rectangle item (the bounding rectangle that Qt
\* caches is none of them)
AnnotationState ==
    << rect_list, bubble_list, item, scene,
       [r \in Rects |-> [rect[r] EXCEPT !.bpen = 0]] >>

\* C14: a step of a worker thread or of a loader thread leaves _rect_list,
\* the list entries and every field of every rectangle as they are, and a
\* recognized text reaches a rectangle only in _on_ocr_done, run by the UI
\* thread for a queued ocr_done.
C14_WorkersLeaveAnnotations ==
    [][/\ (WorkerStep \/ LoadModel \/ LoadFails \/ SetReady)
            => AnnotationState' = AnnotationState
       /\ \A r \in Rects :
             (rect'[r].ocr_text = Recognized /\ rect[r].ocr_text # Recognized)
                => (ocr_queue # << >> /\ ocr_queue[1].rect = r
                    /\ ocr_queue' = Tail(ocr_queue))]_vars

\* the text recognized by a worker has been delivered to a rectangle of
\* _rect_list and is shown in the OCR editor
C14_TextDelivered ==
    /\ ocr_output = Recognized /\ ocr_queue = << >>
    /\ \E i \in 1..Len(rect_list) :
          rect_list[i].li = current /\ rect[rect_list[i].rect].ocr_text = Recognized

\* the commands of the stack, whatever the stack did with them last
Commands(st) == [i \in 1..Len(st) |-> [st[i] EXCEPT !.ran = "pushed"]]

\* C21: an undo, a redo and a change of the selected bubble (a click on a
\* row, a press on a rectangle) push no command; the change of selection
\* and the redo leave the dirty flag as it is, and so does the undo of a
\* command that is no RemoveBubbleCommand (whose undo() calls _mark_dirty
\* itself): the refresh of the panel fields runs no slot.
C21_NoFeedback ==
    [][/\ (RowClicked \/ MousePress) =>
            (stack' = stack /\ index' = index /\ dirty' = dirty)
       /\ (Undo \/ Redo) => Commands(stack') = Commands(stack)
       /\ (Undo /\ stack[index].type # "remove") => dirty' = dirty
       /\ Redo => dirty' = dirty]_vars

\* a move was undone and the panel shows the rectangle where the undo put
\* it, with no unsaved change
C21_UndoneClean ==
    /\ ~dirty /\ index < Len(stack)
    /\ stack[index + 1].type = "move" /\ stack[index + 1].ran = "undone"
    /\ \E i \in 1..Len(rect_list) :
          /\ rect_list[i].li = current /\ rect_list[i].rect = stack[index + 1].rect
          /\ spin.x = SpinValue(rect[rect_list[i].rect].x, 0)
          /\ ocr_output = rect[rect_list[i].rect].ocr_text

\* C22: with no command to undo, undo() returns with the window as it was,
\* and so does redo() with no command to redo; action_undo is enabled
\* exactly when the stack's index is above 0 and action_redo exactly when
\* the index is below the number of commands.
C22_UndoRedoGuarded ==
    /\ index = 0 => undo(St) = St
    /\ index = Len(stack) => redo(St) = St
    /\ action_enabled.undo = (index > 0)
    /\ action_enabled.redo = (index < Len(stack))

\* every command of a stack of two has been undone: Undo is disabled and
\* Redo is enabled
C22_AllUndone ==
    /\ Len(stack) = 2 /\ index = 0
    /\ ~action_enabled.undo /\ action_enabled.redo

RunAnns(path) ==
    [i \in 1..Len(DetectedOn(path)) |->
        Entry(DetectedOn(path)[i].box,
              IF DetectedOn(path)[i].cls = 0 THEN "bubble" ELSE "free-text",
              FALSE, "", "")]

ForCurrent ==
    /\ current # None
    /\ \E i \in 1..Len(rect_list) :
          rect_list[i].li = current /\ rect_list[i].rect = ocr_queue[1].rect

\* C25: the delivery of ocr_done for a rectangle that is not the one of
\* the current list item (another one is selected, or the rectangle was
\* deleted or belongs to a page no longer displayed) leaves the OCR editor
\* and the other panel fields, _rect_list, the list and every other
\* rectangle as they are; of the target rectangle, as long as something
\* still refers to it, only ocr_text changes, to the delivered text.
C25_LateOcrHarmless ==
    [][(OcrDone /\ ~ForCurrent) =>
          /\ ocr_output' = ocr_output /\ trans_edit' = trans_edit /\ spin' = spin
          /\ rect_list' = rect_list /\ bubble_list' = bubble_list
          /\ scene' = scene /\ item' = item
          /\ \A q \in Rects \ {ocr_queue[1].rect} : Ann(rect'[q]) = Ann(rect[q])
          /\ rect'[ocr_queue[1].rect] # NoRect =>
                Ann(rect'[ocr_queue[1].rect]) =
                    [Ann(rect[ocr_queue[1].rect]) EXCEPT !.ocr = ocr_queue[1].text]]_vars

\* a text has arrived for a rectangle that was deleted in the meantime,
\* and the OCR editor does not show it
C25_LateTextKept ==
    /\ ocr_queue = << >> /\ ocr_output # Recognized
    /\ \E r \in Rects \ Range(Listed) : rect[r].ocr_text = Recognized

\* C26: while the annotations of the displayed page differ from the ones
\* in its sidecar file, which is what was last loaded or saved, the dirty
\* flag is true; and the dirty flag is false right after a page was loaded.
C26_DirtyTracksChanges ==
    /\ [](cur_img_path # None /\ PageAnns # LoadedList(St, cur_img_path) => dirty)
    /\ [][(TreeClicked \/ cur_img_path' # cur_img_path) => ~dirty']_vars
====
